---- MODULE Spec2Model ----
(***************************************************************************)
(* Model of property_focus_feature_analysis (src/sero_interview_task.py,   *)
(* lines 245-338), the cumulative-contribution selector of the package.    *)
(*                                                                         *)
(* The table is the feature_col column of cleaned_epc_data: a sequence of  *)
(* integer metrics; the row label of a row is its position (the RangeIndex *)
(* pd.read_csv gives, which clean_epc_data keeps).  percent_line is kept   *)
(* in hundredths (50 stands for 0.5), so that `cs < max * percent_line`    *)
(* is the exact integer comparison cs * 100 < max * percent_line.          *)
(***************************************************************************)
EXTENDS Integers, Sequences, FiniteSets

VARIABLES
    table,          \* cleaned_epc_data[feature_col], in input row order
    feature_data,   \* row labels in the order sort_values gives (line 284)
    calls,          \* one record per finished call: keywords and outcome
    stdout,         \* lines printed by print(conclusion_string)
    files,          \* the files under Results/ the function may write
    figures,        \* number of pyplot figures opened and never closed
    other_col,      \* a second metric column of cleaned_epc_data, row-aligned
    other_data      \* row labels in the order sort_values gives for other_col

vars == <<table, feature_data, calls, stdout, files, figures,
          other_col, other_data>>

----------------------------------------------------------------------------
(* Bounds of the model *)

MaxLen == 4          \* rows of a table under Spec
MaxPairLen == 2      \* rows of a table under SpecPair (two calls per run)
MaxMetric == 1       \* largest metric value of an enumerated table
MinMetric == 0 - 1   \* smallest metric value of an enumerated table
MaxStep == 5         \* percent_line ranges over -0.25, 0, 0.25 .. MaxStep/4

Hundred == 100
DefaultPercentLine == 50

Metrics == MinMetric..MaxMetric

\* percent_line values a caller passes, in hundredths
Thresholds == {k * 25 : k \in (0 - 1)..MaxStep}

\* The tables of section 8 of the specification (and row permutations of
\* them), and one table of five strictly positive metrics.
ExampleTables ==
    { <<50, 30, 20>>, <<20, 50, 30>>, <<40, 30, 20>>, <<30, 20, 40>>,
      <<10, 50, 20, 40, 30>>, <<0, 0, 0, 0, 0>> }

TablesUpTo(n) == UNION {[1..k -> Metrics] : k \in 0..n}

\* **keyword_parameters: percent_line is <<>> when the key is absent and
\* <<p>> when it is passed; save is "absent", "True" or "False" (any value
\* that is not the object True behaves as "False").
Keywords ==
    [percent_line : {<<>>} \cup {<<p>> : p \in Thresholds},
     save : {"absent", "True", "False"}]

\* The keywords of the runs that analyse two metric columns in turn
ColsKeywords ==
    [percent_line : {<<>>, <<Hundred>>}, save : {"absent", "True"}]

\* feature_col: the column of the table, or the second metric column
FeatureCols == {"metric", "other"}

\* The second metric columns of a table of n rows
OtherColumns(n) == [1..n -> {MinMetric, MaxMetric}]

----------------------------------------------------------------------------
(* Pure helpers *)

RECURSIVE SortedPerms(_, _)
\* Every ordering of the rows S that is descending by metric.
SortedPerms(t, S) ==
    IF S = {} THEN {<<>>}
    ELSE LET top == {i \in S : \A j \in S : t[i] >= t[j]}
         IN  UNION {{<<i>> \o q : q \in SortedPerms(t, S \ {i})} : i \in top}

RECURSIVE SortedPermsAscending(_, _)
SortedPermsAscending(t, S) ==
    IF S = {} THEN {<<>>}
    ELSE LET low == {i \in S : \A j \in S : t[i] <= t[j]}
         IN  UNION {{<<i>> \o q : q \in SortedPermsAscending(t, S \ {i})} : i \in low}

sort_values_ascending(t) == SortedPermsAscending(t, 1..Len(t))

\* cleaned_epc_data[[address_col, feature_col]].sort_values(by=feature_col,
\* ascending=False): the default sort kind is not stable, so the order of
\* rows with equal metrics is whatever the build gives; it is a function of
\* the table, hence chosen once per table.
sort_values(t) == SortedPerms(t, 1..Len(t))

\* feature_data[feature_col]: the metrics in sorted order
RECURSIVE FeatureCol(_, _)
FeatureCol(t, fd) ==
    IF fd = <<>> THEN <<>> ELSE <<t[Head(fd)]>> \o FeatureCol(t, Tail(fd))

RECURSIVE cumsum(_)
\* np.cumsum: the running sum, element i being s[1] + ... + s[i]
cumsum(s) ==
    IF s = <<>> THEN <<>>
    ELSE LET h == cumsum(SubSeq(s, 1, Len(s) - 1))
         IN  Append(h, (IF h = <<>> THEN 0 ELSE h[Len(h)]) + s[Len(s)])

py_max_default(s) ==
    IF s = <<>> THEN <<0>>
    ELSE <<CHOOSE m \in {s[i] : i \in 1..Len(s)} :
               \A i \in 1..Len(s) : s[i] <= m>>

py_last(s) == IF s = <<>> THEN <<>> ELSE <<s[Len(s)]>>

\* Python's max(iterable): <<>> stands for the ValueError it raises on an
\* empty iterable, <<m>> for the value it returns.
py_max(s) ==
    IF s = <<>> THEN <<>>
    ELSE <<CHOOSE m \in {s[i] : i \in 1..Len(s)} :
               \A i \in 1..Len(s) : s[i] <= m>>

PercentLineSticky(kw) ==
    IF kw.percent_line # <<>> THEN kw.percent_line[1]
    ELSE IF calls # <<>> /\ calls[Len(calls)].kw.percent_line # <<>>
    THEN calls[Len(calls)].kw.percent_line[1]
    ELSE DefaultPercentLine

\* percent_line as the code reads it (lines 301-304)
PercentLine(kw) ==
    IF kw.percent_line # <<>> THEN kw.percent_line[1] ELSE DefaultPercentLine

\* y of plt.axhline (line 305), times a hundred: max(cumsum) * percent_line
Cutoff(cs, pl) == py_max(cs)[1] * pl

MaskNonStrict(cs, pl) ==
    LET y == Cutoff(cs, pl) IN [i \in 1..Len(cs) |-> cs[i] * Hundred <= y]

\* np.cumsum(...) < max(np.cumsum(...)) * percent_line (lines 322, 323, 336):
\* a boolean Series in sorted order
Mask(cs, pl) ==
    LET y == Cutoff(cs, pl) IN [i \in 1..Len(cs) |-> cs[i] * Hundred < y]

percent_of_total_fraction(mask) ==
    [num |-> Cardinality({i \in 1..Len(mask) : mask[i]}), den |-> Len(mask)]

\* (sum(mask) / len(mask)) * 100 (lines 322-323), kept as num / den
percent_of_total(mask) ==
    [num |-> Cardinality({i \in 1..Len(mask) : mask[i]}) * Hundred,
     den |-> Len(mask)]

loc_sorted(t, fd, mask) ==
    SelectSeq(fd, LAMBDA r : mask[CHOOSE i \in 1..Len(fd) : fd[i] = r])

\* cleaned_epc_data.loc[mask] (line 336): a boolean Series is aligned with
\* the frame's index, so the rows come back in the frame's own row order.
loc(t, fd, mask) ==
    SelectSeq([r \in 1..Len(t) |-> r],
              LAMBDA r : mask[CHOOSE i \in 1..Len(fd) : fd[i] = r])

SaveRequestedIfPresent(kw) == kw.save # "absent"

\* 'save' in keyword_parameters.keys() and keyword_parameters['save'] is True
SaveRequested(kw) == kw.save = "True"

\* conclusion_string (line 325): the two figures it formats, percent_line * 100
\* and percent_of_total; the empty line print('', file=f) writes is <<>>.
conclusion_string(pl, pot) == <<pl, pot.num, pot.den>>

----------------------------------------------------------------------------
(* State machine *)

NoFiles == [plot |-> <<>>, suggestion |-> <<>>]

InitOver(tables) ==
    /\ table \in tables
    /\ feature_data \in sort_values(table)
    /\ calls = <<>>
    /\ stdout = <<>>
    /\ files = NoFiles
    /\ figures = 0
    /\ other_col = <<>>
    /\ other_data = <<>>

\* A table with a second metric column
InitCols ==
    /\ table \in TablesUpTo(MaxPairLen)
    /\ feature_data \in sort_values(table)
    /\ other_col \in OtherColumns(Len(table))
    /\ other_data \in sort_values(other_col)
    /\ calls = <<>>
    /\ stdout = <<>>
    /\ files = NoFiles
    /\ figures = 0

Init == InitOver(TablesUpTo(MaxLen) \cup ExampleTables)

InitPair == InitOver(TablesUpTo(MaxPairLen))

\* One call property_focus_feature_analysis(cleaned_epc_data, feature_col, **kw)
property_focus_feature_analysis(feature_col, kw) ==
    LET t    == IF feature_col = "metric" THEN table ELSE other_col
        fd   == IF feature_col = "metric" THEN feature_data ELSE other_data
        cs   == cumsum(FeatureCol(t, fd))
        pl   == PercentLine(kw)
        mx   == py_max(cs)
        mask == Mask(cs, pl)
        pot  == percent_of_total(mask)
        plotted == IF SaveRequested(kw)
                   THEN [files EXCEPT !.plot = <<[bars |-> cs, line |-> Cutoff(cs, pl)]>>]
                   ELSE files
        Raised(err) == [feature_col |-> feature_col, kw |-> kw,
                        outcome |-> err, ret |-> <<>>,
                        cutoff |-> <<>>, percent |-> <<>>]
    IN  /\ figures' = figures + 1                      \* line 290
        /\ UNCHANGED <<table, feature_data, other_col, other_data>>  \* sort_values copies
        /\ IF mx = <<>>
           THEN \* line 305: max() of an empty Series
                /\ calls' = Append(calls, Raised("ValueError"))
                /\ UNCHANGED <<stdout, files>>
           ELSE IF pot.den = 0
           THEN \* line 323: division by len() = 0, after the plot is saved
                /\ calls' = Append(calls, Raised("ZeroDivisionError"))
                /\ files' = plotted
                /\ UNCHANGED stdout
           ELSE /\ calls' = Append(calls,
                      [feature_col |-> feature_col, kw |-> kw,
                       outcome |-> "returned",
                       ret |-> <<loc(t, fd, mask)>>,
                       cutoff |-> <<Cutoff(cs, pl)>>,
                       percent |-> <<pot>>])
                /\ files' = IF SaveRequested(kw)
                            THEN [plotted EXCEPT !.suggestion =
                                     <<conclusion_string(pl, pot), <<>>>>]
                            ELSE plotted
                /\ stdout' = IF kw.save = "absent"
                             THEN Append(stdout, conclusion_string(pl, pot))
                             ELSE stdout

Next ==
    \E kw \in Keywords :
        Len(calls) < 1 /\ property_focus_feature_analysis("metric", kw)

NextPair ==
    \E kw \in Keywords :
        Len(calls) < 2 /\ property_focus_feature_analysis("metric", kw)

\* A run of three calls on one table: a call, any call on either metric
\* column, and the first call again with the same column and keywords.
NextCols ==
    \E feature_col \in FeatureCols, kw \in ColsKeywords :
        /\ Len(calls) < 3
        /\ Len(calls) = 2 =>
               feature_col = calls[1].feature_col /\ kw = calls[1].kw
        /\ property_focus_feature_analysis(feature_col, kw)

Spec == Init /\ [][Next]_vars

SpecPair == InitPair /\ [][NextPair]_vars

SpecCols == InitCols /\ [][NextCols]_vars

----------------------------------------------------------------------------
(* Vocabulary of the properties *)

Returned(c) == c.outcome = "returned"

\* The Focus Subset a returned call gave: row labels, in the order returned
Focus(c) == c.ret[1]

Range(f) == {f[i] : i \in 1..Len(f)}

RECURSIVE SeqSum(_)
SeqSum(s) == IF s = <<>> THEN 0 ELSE Head(s) + SeqSum(Tail(s))

\* The metrics in ranked order and their running sums C[1..n]
Ranked == FeatureCol(table, feature_data)

C == cumsum(Ranked)

\* Length of the longest prefix of the ranking whose running sums all stay
\* strictly below y / 100
PrefixBelow(y) ==
    Cardinality({k \in 1..Len(C) : \A m \in 1..k : C[m] * Hundred < y})

AllPositive == \A r \in 1..Len(table) : table[r] > 0

AllZero == \A r \in 1..Len(table) : table[r] = 0

----------------------------------------------------------------------------
(* Properties *)

\* C1: the Focus Subset of every returned call is the maximal prefix of the
\* descending ranking whose running sums are all below the cutoff, whatever
\* the signs of the metrics.
C1_FocusIsMaximalPrefix ==
    \A i \in 1..Len(calls) :
        Returned(calls[i]) =>
            Range(Focus(calls[i])) =
                {feature_data[k] : k \in 1..PrefixBelow(calls[i].cutoff[1])}

\* C2: the cutoff of every returned call is total * threshold_fraction, the
\* total being the sum of the metric over all rows.
C2_CutoffIsTotalTimesThreshold ==
    \A i \in 1..Len(calls) :
        Returned(calls[i]) =>
            calls[i].cutoff[1] = SeqSum(table) * PercentLine(calls[i].kw)

\* C3: a row whose running sum equals the cutoff is excluded; metrics
\* 50, 30, 20 at the default threshold give an empty Focus Subset and
\* metrics 40, 30, 20 give exactly the row of metric 40.
C3_StrictCutoff ==
    \A i \in 1..Len(calls) :
        Returned(calls[i]) =>
            /\ \A k \in 1..Len(C) :
                   C[k] * Hundred = calls[i].cutoff[1]
                       => feature_data[k] \notin Range(Focus(calls[i]))
            /\ (Ranked = <<50, 30, 20>> /\ PercentLine(calls[i].kw) = 50)
                   => Focus(calls[i]) = <<>>
            /\ (Ranked = <<40, 30, 20>> /\ PercentLine(calls[i].kw) = 50)
                   => Focus(calls[i]) = <<feature_data[1]>>

C3_Witness ==
    /\ calls # <<>>
    /\ Returned(calls[1])
    /\ table = <<20, 50, 30>>
    /\ calls[1].kw.percent_line = <<>>
    /\ C[1] * Hundred = calls[1].cutoff[1]
    /\ Focus(calls[1]) = <<>>

\* C4 as stated: the Focus Subset is ordered descending by metric and,
\* followed by the excluded rows, gives a descending ordering of the input.
C4_FocusDescending ==
    \A i \in 1..Len(calls) :
        Returned(calls[i]) =>
            LET f == Focus(calls[i])
            IN  /\ \A a, b \in 1..Len(f) : a < b => table[f[a]] >= table[f[b]]
                /\ \A r \in Range(f) :
                       \A x \in (1..Len(table)) \ Range(f) : table[r] >= table[x]

\* C4 as amended: the Focus Subset keeps the row order of the input table:
\* its row labels are strictly increasing, whatever their metrics.
C4_FocusInRowOrder ==
    \A i \in 1..Len(calls) :
        Returned(calls[i]) =>
            LET f == Focus(calls[i])
            IN  \A a, b \in 1..Len(f) : a < b => f[a] < f[b]

C4_Witness ==
    /\ calls # <<>>
    /\ Returned(calls[1])
    /\ LET f == Focus(calls[1])
       IN  \E a, b \in 1..Len(f) : a < b /\ table[f[a]] < table[f[b]]

\* C5 as stated: of two returned calls on the same table, the one with the
\* smaller threshold has its Focus Subset contained in the other's.
C5_Monotone ==
    \A i, j \in 1..Len(calls) :
        (/\ Returned(calls[i])
         /\ Returned(calls[j])
         /\ PercentLine(calls[i].kw) <= PercentLine(calls[j].kw))
            => Range(Focus(calls[i])) \subseteq Range(Focus(calls[j]))

\* C5 as amended: the containment holds for every table whose largest
\* metric is not negative.
C5_MonotoneNonNegativeTop ==
    \A i, j \in 1..Len(calls) :
        (/\ Returned(calls[i])
         /\ Returned(calls[j])
         /\ \E r \in 1..Len(table) : table[r] >= 0
         /\ PercentLine(calls[i].kw) <= PercentLine(calls[j].kw))
            => Range(Focus(calls[i])) \subseteq Range(Focus(calls[j]))

C5_Witness ==
    /\ Len(calls) = 2
    /\ Returned(calls[1])
    /\ Returned(calls[2])
    /\ \E r \in 1..Len(table) : table[r] < 0
    /\ \E r \in 1..Len(table) : table[r] >= 0
    /\ PercentLine(calls[1].kw) < PercentLine(calls[2].kw)
    /\ Range(Focus(calls[1])) # Range(Focus(calls[2]))
    /\ Range(Focus(calls[1])) \subseteq Range(Focus(calls[2]))

\* C6 as stated: no call changes the input table or writes a file.
C6_NoSideEffects == [][table' = table /\ files' = files]_vars

\* C6 as amended: no call changes the input table, and a call writes files
\* only when it is passed save = True.
C6_TableKeptFilesOnlyOnSave ==
    [][/\ table' = table
       /\ files' # files => calls'[Len(calls')].kw.save = "True"]_vars

C6_Witness ==
    /\ calls # <<>>
    /\ Returned(calls[1])
    /\ calls[1].kw.save = "False"
    /\ Focus(calls[1]) # <<>>
    /\ files = NoFiles

\* C7: the percentage of the summary line is 100 * (rows of the returned
\* Focus Subset) / (rows of the input table).
C7_PercentIsShareOfRows ==
    \A i \in 1..Len(calls) :
        Returned(calls[i]) =>
            LET line == conclusion_string(PercentLine(calls[i].kw),
                                          calls[i].percent[1])
            IN  /\ line[2] * Len(table)
                       = Hundred * Len(Focus(calls[i])) * line[3]
                /\ calls[i].kw.save = "absent" => stdout[Len(stdout)] = line
                /\ calls[i].kw.save = "True" => files.suggestion[1] = line

C7_Witness ==
    /\ calls # <<>>
    /\ Returned(calls[1])
    /\ Len(table) = 4
    /\ Len(Focus(calls[1])) = 3
    /\ Len(stdout) = 1
    /\ stdout[1][2] = 300
    /\ stdout[1][3] = 4

C9_ZeroTotalFails ==
    \A i \in 1..Len(calls) :
        (table # <<>> /\ AllZero) => ~Returned(calls[i])

\* C10: with threshold_fraction = 1 and strictly positive metrics the Focus
\* Subset is every row but the last-ranked one, the row of smallest metric.
C10_AllButLastAtOne ==
    \A i \in 1..Len(calls) :
        (Returned(calls[i]) /\ AllPositive /\ PercentLine(calls[i].kw) = Hundred)
            => /\ Len(Focus(calls[i])) = Len(table) - 1
               /\ \E x \in 1..Len(table) :
                      /\ Range(Focus(calls[i])) = (1..Len(table)) \ {x}
                      /\ x = feature_data[Len(table)]
                      /\ \A r \in 1..Len(table) : table[x] <= table[r]

C10_Witness ==
    /\ calls # <<>>
    /\ Returned(calls[1])
    /\ table = <<10, 50, 20, 40, 30>>
    /\ calls[1].kw.percent_line = <<Hundred>>
    /\ Focus(calls[1]) = <<2, 3, 4, 5>>

C12_SummaryAlwaysEmitted ==
    (calls # <<>> /\ Returned(calls[1])) =>
        LET line == conclusion_string(PercentLine(calls[1].kw),
                                      calls[1].percent[1])
        IN  IF calls[1].kw.save = "True"
            THEN files.suggestion = <<line, <<>>>> /\ stdout = <<>>
            ELSE stdout = <<line>> /\ files.suggestion = <<>>

====
